---- MODULE Spec2Model ----
(***************************************************************************)
(* Model of homework.py: a bot that polls the homework-status API, sends   *)
(* the verdict of the first homework of each answer to a Telegram chat,    *)
(* reports failures of a cycle to the same chat and sleeps between cycles. *)
(* The Russian texts of the program are written in Latin transliteration.  *)
(***************************************************************************)
EXTENDS Integers, Sequences, FiniteSets, TLC

VARIABLES env, pc, timestamp, last_message, escaping, cycle

vars == <<env, pc, timestamp, last_message, escaping, cycle>>

(***************************************************************************)
(* Bounds of the inputs.                                                   *)
(***************************************************************************)
MaxHomeworks == 2
MaxDate == 2

(***************************************************************************)
(* Program constants.                                                      *)
(***************************************************************************)
RETRY_PERIOD == 600
HTTP_OK == 200
Now == 0

None == "None"

TOKEN_NAMES == {"PRACTICUM_TOKEN", "TELEGRAM_TOKEN", "TELEGRAM_CHAT_ID"}

HOMEWORK_VERDICTS ==
    [s \in {"approved", "reviewing", "rejected"} |->
        CASE s = "approved" -> "Rabota proverena: revyueru vsyo ponravilos. Ura!"
          [] s = "reviewing" -> "Rabota vzyata na proverku revyuerom."
          [] s = "rejected" -> "Rabota proverena: u revyuera est zamechaniya."]

(***************************************************************************)
(* JSON values of current_date: an integer or a value of another type.     *)
(***************************************************************************)
JInt(n) == [type |-> "int", val |-> n]
JStr(n) == [type |-> "str", val |-> n]
JNull == [type |-> "null", val |-> 0]
Unset == [type |-> "unset", val |-> 0]

DateVals == {JInt(n) : n \in 1..MaxDate} \cup {JStr(1)}
FirstDate == JInt(1)

(***************************************************************************)
(* Exceptions: the class and the text str() gives.                         *)
(***************************************************************************)
NoExc == [type |-> "none", str |-> ""]
Exc(t, s) == [type |-> t, str |-> s]

UnboundLocalError(name) ==
    Exc("UnboundLocalError",
        "cannot access local variable '" \o name
            \o "' where it is not associated with a value")
HTTPError == Exc("HTTPError", "")
JSONDecodeError == Exc("JSONDecodeError", "Expecting value: line 1 column 1 (char 0)")
ResponseTypeError == Exc("TypeError", "Tip otveta API ne sootvetvuet ozhidaemomu")
StatusKeyError == Exc("KeyError", "'Nedokumentirovannyi status domashnei raboty'")
NotSendMessageTelegram ==
    Exc("NotSendMessageTelegram",
        "Oshibka v rabote TelegramBot, coobshchenie ne otpravleno")
TelegramError == Exc("TelegramError", "Timed out")

(***************************************************************************)
(* Inputs: homework records, API answers, outcomes of the network call.    *)
(***************************************************************************)
Names == {"proj1"}
Statuses == {"approved", "archived"}
HW_KEYS == {"homework_name", "status"}

Homework ==
    {[keys |-> K, homework_name |-> n, status |-> s] :
        K \in SUBSET HW_KEYS, n \in Names \cup {""}, s \in Statuses \cup {""}}

HomeworkRecords ==
    {h \in Homework :
        /\ ("homework_name" \in h.keys) = (h.homework_name # "")
        /\ ("status" \in h.keys) = (h.status # "")}

\* The records that follow the first one of a list: a reviewed homework
\* of another name and a record without fields.
TailRecords ==
    {[keys |-> HW_KEYS, homework_name |-> "proj2", status |-> "rejected"],
     [keys |-> {}, homework_name |-> "", status |-> ""]}

HomeworkLists ==
    {hs \in UNION {[1..n -> HomeworkRecords \cup TailRecords] : n \in 0..MaxHomeworks} :
        \A i \in DOMAIN hs :
            IF i = 1 THEN hs[i] \in HomeworkRecords ELSE hs[i] \in TailRecords}

ShortLists ==
    {<<>>, <<[keys |-> HW_KEYS, homework_name |-> "proj1", status |-> "approved"]>>}

RESPONSE_KEYS == {"homeworks", "current_date"}

NotJson ==
    [shape |-> "not_json", keys |-> {}, homeworks_is_list |-> FALSE,
     homeworks |-> <<>>, current_date |-> JNull]
NotDict == [NotJson EXCEPT !.shape = "not_dict"]

Dicts ==
    {[shape |-> "dict", keys |-> K, homeworks_is_list |-> l,
      homeworks |-> hs, current_date |-> d] :
        K \in SUBSET RESPONSE_KEYS, l \in BOOLEAN,
        hs \in HomeworkLists, d \in DateVals \cup {JNull}}

\* The answers: every list with the first date, the short lists with every
\* other current_date, absent or of another type included.
JsonBodies ==
    {NotJson, NotDict} \cup
    {b \in Dicts :
        /\ ("current_date" \in b.keys) = (b.current_date # JNull)
        /\ (~b.homeworks_is_list => b.homeworks = <<>>)
        /\ (b.homeworks_is_list => "homeworks" \in b.keys)
        /\ (b.current_date # FirstDate =>
               b.homeworks_is_list /\ b.homeworks \in ShortLists)}

TransportFailure == [transport_ok |-> FALSE, status_code |-> 0, json |-> NotJson]

NetOutcomes ==
    {TransportFailure}
    \cup {[transport_ok |-> TRUE, status_code |-> c, json |-> NotJson] : c \in {503}}
    \cup {[transport_ok |-> TRUE, status_code |-> HTTP_OK, json |-> b] : b \in JsonBodies}

(***************************************************************************)
(* check_tokens: the names of the tokens whose value is None;              *)
(* SystemExit is raised when there is one.                                 *)
(***************************************************************************)
empty_tokens(e) == {token \in TOKEN_NAMES : e[token] = None}

\* A check that forgets the chat id.
check_tokens_skips_chat_id(e) ==
    IF \E token \in {"PRACTICUM_TOKEN", "TELEGRAM_TOKEN"} : e[token] = None
    THEN Exc("SystemExit", "tokens") ELSE NoExc

check_tokens(e) ==
    IF empty_tokens(e) # {} THEN Exc("SystemExit", "tokens") ELSE NoExc

(***************************************************************************)
(* send_message: one call of bot.send_message; a TelegramError becomes     *)
(* NotSendMessageTelegram.                                                 *)
(***************************************************************************)
BotCall(text, ok, by) == [text |-> text, ok |-> ok, by |-> by]

\* A send whose raise is not confined to the except clause.
send_message_always_raises(message, tg_ok) ==
    [raised |-> NotSendMessageTelegram,
     calls |-> <<BotCall(message, tg_ok, "send_message")>>]

send_message(message, tg_ok) ==
    [raised |-> IF tg_ok THEN NoExc ELSE NotSendMessageTelegram,
     calls |-> <<BotCall(message, tg_ok, "send_message")>>]

(***************************************************************************)
(* get_api_answer: the except clause of the request only logs, so control  *)
(* reaches the status check with the local `response` bound only when      *)
(* requests.get returned.                                                  *)
(***************************************************************************)
get_api_answer(net) ==
    LET bound == net.transport_ok
    IN  IF ~bound
        THEN [raised |-> UnboundLocalError("response"), value |-> NotJson,
              referenced_response |-> TRUE]
        ELSE IF net.status_code # HTTP_OK
        THEN [raised |-> HTTPError, value |-> NotJson,
              referenced_response |-> TRUE]
        ELSE IF net.json.shape = "not_json"
        THEN [raised |-> JSONDecodeError, value |-> NotJson,
              referenced_response |-> TRUE]
        ELSE [raised |-> NoExc, value |-> net.json,
              referenced_response |-> TRUE]

(***************************************************************************)
(* check_response: a dict with both keys whose homeworks is a list.        *)
(***************************************************************************)
\* A validation that takes a dict without a homeworks list as an empty one.
check_response_lenient(response) ==
    IF response.shape = "dict" /\ "current_date" \in response.keys
    THEN [raised |-> NoExc, value |-> response.homeworks]
    ELSE [raised |-> ResponseTypeError, value |-> <<>>]

check_response(response) ==
    IF /\ response.shape = "dict"
       /\ \A key \in RESPONSE_KEYS : key \in response.keys
       /\ response.homeworks_is_list
    THEN [raised |-> NoExc, value |-> response.homeworks]
    ELSE [raised |-> ResponseTypeError, value |-> <<>>]

(***************************************************************************)
(* parse_status: a missing key is only logged and leaves name and status   *)
(* unbound; an unknown status raises KeyError.                             *)
(***************************************************************************)
VerdictMessage(name, verdict) ==
    "Izmenilsya status proverki raboty \"" \o name \o "\". " \o verdict

\* A formatter that passes an unknown status through as its own verdict.
parse_status_passes_unknown(homework) ==
    LET bound == \A key \in HW_KEYS : key \in homework.keys
    IN  IF ~bound
        THEN [raised |-> UnboundLocalError("status"), value |-> ""]
        ELSE [raised |-> NoExc,
              value |-> VerdictMessage(homework.homework_name,
                            IF homework.status \in DOMAIN HOMEWORK_VERDICTS
                            THEN HOMEWORK_VERDICTS[homework.status]
                            ELSE homework.status)]

\* A formatter that reads the fields with a default instead of failing.
parse_status_defaults_missing(homework) ==
    LET name == IF "homework_name" \in homework.keys
                THEN homework.homework_name ELSE "None"
    IN  IF "status" \notin homework.keys
           \/ homework.status \notin DOMAIN HOMEWORK_VERDICTS
        THEN [raised |-> StatusKeyError, value |-> ""]
        ELSE [raised |-> NoExc,
              value |-> VerdictMessage(name, HOMEWORK_VERDICTS[homework.status])]

parse_status(homework) ==
    LET bound == \A key \in HW_KEYS : key \in homework.keys
    IN  IF ~bound
        THEN [raised |-> UnboundLocalError("status"), value |-> ""]
        ELSE IF homework.status \notin DOMAIN HOMEWORK_VERDICTS
        THEN [raised |-> StatusKeyError, value |-> ""]
        ELSE [raised |-> NoExc,
              value |-> VerdictMessage(homework.homework_name,
                                       HOMEWORK_VERDICTS[homework.status])]

(***************************************************************************)
(* main: the body of the try block of one cycle.                           *)
(***************************************************************************)
\* A try block that moves the cursor only at the end of a cycle that sent
\* a verdict.
main_try_cursor_last(ts, net, tg_ok) ==
    LET a == get_api_answer(net)
        c == check_response(a.value)
        ts2 == a.value.current_date
        p == parse_status(Head(c.value))
        s == send_message(p.value, tg_ok)
        obs == [referenced_response |-> a.referenced_response]
    IN  IF a.raised # NoExc
        THEN [raised |-> a.raised, timestamp |-> ts, calls |-> <<>>, obs |-> obs]
        ELSE IF c.raised # NoExc
        THEN [raised |-> c.raised, timestamp |-> ts, calls |-> <<>>, obs |-> obs]
        ELSE IF c.value = <<>>
        THEN [raised |-> NoExc, timestamp |-> ts, calls |-> <<>>, obs |-> obs]
        ELSE IF p.raised # NoExc
        THEN [raised |-> p.raised, timestamp |-> ts, calls |-> <<>>, obs |-> obs]
        ELSE [raised |-> s.raised,
              timestamp |-> IF s.raised = NoExc THEN ts2 ELSE ts,
              calls |-> s.calls, obs |-> obs]

\* A try block that formats the last homework of the list.
main_try_last_record(ts, net, tg_ok) ==
    LET a == get_api_answer(net)
        c == check_response(a.value)
        ts2 == a.value.current_date
        p == parse_status(c.value[Len(c.value)])
        s == send_message(p.value, tg_ok)
        obs == [referenced_response |-> a.referenced_response]
    IN  IF a.raised # NoExc
        THEN [raised |-> a.raised, timestamp |-> ts, calls |-> <<>>, obs |-> obs]
        ELSE IF c.raised # NoExc
        THEN [raised |-> c.raised, timestamp |-> ts, calls |-> <<>>, obs |-> obs]
        ELSE IF c.value = <<>>
        THEN [raised |-> NoExc, timestamp |-> ts2, calls |-> <<>>, obs |-> obs]
        ELSE IF p.raised # NoExc
        THEN [raised |-> p.raised, timestamp |-> ts2, calls |-> <<>>, obs |-> obs]
        ELSE [raised |-> s.raised, timestamp |-> ts2, calls |-> s.calls, obs |-> obs]

main_try(ts, net, tg_ok) ==
    LET a == get_api_answer(net)
        c == check_response(a.value)
        ts2 == a.value.current_date
        p == parse_status(Head(c.value))
        s == send_message(p.value, tg_ok)
        obs == [referenced_response |-> a.referenced_response]
    IN  IF a.raised # NoExc
        THEN [raised |-> a.raised, timestamp |-> ts, calls |-> <<>>, obs |-> obs]
        ELSE IF c.raised # NoExc
        THEN [raised |-> c.raised, timestamp |-> ts, calls |-> <<>>, obs |-> obs]
        ELSE IF c.value = <<>>
        THEN [raised |-> NoExc, timestamp |-> ts2, calls |-> <<>>, obs |-> obs]
        ELSE IF p.raised # NoExc
        THEN [raised |-> p.raised, timestamp |-> ts2, calls |-> <<>>, obs |-> obs]
        ELSE [raised |-> s.raised, timestamp |-> ts2, calls |-> s.calls, obs |-> obs]

(***************************************************************************)
(* main: the except clause of one cycle. The send is made on the bot       *)
(* itself, so a TelegramError leaves the clause.                           *)
(***************************************************************************)
ErrorMessage(error) == "Sboi v rabote programmy: " \o error.str

\* An except clause that reports every failure, repeated or not.
main_except_no_dedup(error, last, tg_ok) ==
    LET message == ErrorMessage(error)
    IN  [message |-> message,
         calls |-> <<BotCall(message, tg_ok, "main")>>,
         last_message |-> IF tg_ok THEN message ELSE last,
         escaping |-> IF tg_ok THEN NoExc ELSE TelegramError]

\* An except clause that remembers the message before sending it.
main_except_remembers_first(error, last, tg_ok) ==
    LET message == ErrorMessage(error)
    IN  IF message # last
        THEN [message |-> message,
              calls |-> <<BotCall(message, tg_ok, "main")>>,
              last_message |-> message,
              escaping |-> IF tg_ok THEN NoExc ELSE TelegramError]
        ELSE [message |-> message, calls |-> <<>>,
              last_message |-> last, escaping |-> NoExc]

main_except(error, last, tg_ok) ==
    LET message == ErrorMessage(error)
    IN  IF message # last
        THEN [message |-> message,
              calls |-> <<BotCall(message, tg_ok, "main")>>,
              last_message |-> IF tg_ok THEN message ELSE last,
              escaping |-> IF tg_ok THEN NoExc ELSE TelegramError]
        ELSE [message |-> message, calls |-> <<>>,
              last_message |-> last, escaping |-> NoExc]

main_cycle(ts, last, net, tg1, tg2) ==
    LET t == main_try(ts, net, tg1)
        e == main_except(t.raised, last, tg2)
    IN  IF t.raised = NoExc
        THEN [timestamp |-> t.timestamp, last_message |-> last,
              error |-> NoExc, message |-> None, calls |-> t.calls,
              escaping |-> NoExc, obs |-> t.obs]
        ELSE [timestamp |-> t.timestamp, last_message |-> e.last_message,
              error |-> t.raised, message |-> e.message,
              calls |-> t.calls \o e.calls,
              escaping |-> e.escaping, obs |-> t.obs]

(***************************************************************************)
(* The state machine.                                                      *)
(***************************************************************************)
NoPrev == [failed |-> FALSE, message |-> None]

ErrorSends(calls) == Cardinality({i \in DOMAIN calls : calls[i].by = "main"})

NoCycle ==
    [fetched |-> FALSE, net |-> TransportFailure,
     before |-> [timestamp |-> Unset, last_message |-> None],
     error |-> NoExc, message |-> None, calls |-> <<>>,
     obs |-> [referenced_response |-> FALSE],
     slept |-> 0, prev |-> NoPrev]

Init ==
    /\ env \in [TOKEN_NAMES -> {None, "value"}]
    /\ pc = "STARTING"
    /\ timestamp = Unset
    /\ last_message = None
    /\ escaping = NoExc
    /\ cycle = NoCycle

StartOk ==
    /\ pc = "STARTING"
    /\ check_tokens(env) = NoExc
    /\ pc' = "POLLING"
    /\ timestamp' = JInt(Now)
    /\ last_message' = None
    /\ UNCHANGED <<env, escaping, cycle>>

StartExit ==
    /\ pc = "STARTING"
    /\ check_tokens(env) # NoExc
    /\ pc' = "EXITED"
    /\ escaping' = check_tokens(env)
    /\ UNCHANGED <<env, timestamp, last_message, cycle>>

Poll ==
    /\ pc = "POLLING"
    /\ \E net \in NetOutcomes, tg1 \in BOOLEAN, tg2 \in BOOLEAN :
        LET r == main_cycle(timestamp, last_message, net, tg1, tg2)
        IN  /\ timestamp' = r.timestamp
            /\ last_message' = r.last_message
            /\ escaping' = r.escaping
            /\ cycle' =
                [fetched |-> TRUE, net |-> net,
                 before |-> [timestamp |-> timestamp,
                             last_message |-> last_message],
                 error |-> r.error, message |-> r.message,
                 calls |-> r.calls, obs |-> r.obs, slept |-> 0,
                 prev |-> IF cycle.fetched
                          THEN [failed |-> cycle.error # NoExc,
                                message |-> cycle.message]
                          ELSE NoPrev]
    /\ pc' = "SLEEPING"
    /\ UNCHANGED env

\* A loop that sleeps at the end of the try block only, not in finally.
Sleep_only_after_success ==
    /\ pc = "SLEEPING"
    /\ cycle' = [cycle EXCEPT
                    !.slept = IF cycle.error = NoExc THEN @ + RETRY_PERIOD ELSE @]
    /\ pc' = IF escaping = NoExc THEN "POLLING" ELSE "CRASHED"
    /\ UNCHANGED <<env, timestamp, last_message, escaping>>

Sleep ==
    /\ pc = "SLEEPING"
    /\ cycle' = [cycle EXCEPT !.slept = @ + RETRY_PERIOD]
    /\ pc' = IF escaping = NoExc THEN "POLLING" ELSE "CRASHED"
    /\ UNCHANGED <<env, timestamp, last_message, escaping>>

Next == StartOk \/ StartExit \/ Poll \/ Sleep

Spec == Init /\ [][Next]_vars

TypeOK ==
    /\ pc \in {"STARTING", "POLLING", "SLEEPING", "EXITED", "CRASHED"}
    /\ cycle.net \in NetOutcomes
    /\ Len(cycle.calls) <= 2

(***************************************************************************)
(* What the last cycle was given: the vocabulary of the properties.        *)
(***************************************************************************)
Answered200 ==
    /\ cycle.fetched
    /\ cycle.net.transport_ok
    /\ cycle.net.status_code = 200

PassedValidation ==
    /\ Answered200
    /\ cycle.net.json.shape = "dict"
    /\ {"homeworks", "current_date"} \subseteq cycle.net.json.keys
    /\ cycle.net.json.homeworks_is_list

FirstRecord == Head(cycle.net.json.homeworks)

KnownStatuses == {"approved", "reviewing", "rejected"}

FirstIsKnown ==
    /\ PassedValidation
    /\ cycle.net.json.homeworks # <<>>
    /\ {"homework_name", "status"} \subseteq FirstRecord.keys
    /\ FirstRecord.status \in KnownStatuses

FirstIsUnknown ==
    /\ PassedValidation
    /\ cycle.net.json.homeworks # <<>>
    /\ {"homework_name", "status"} \subseteq FirstRecord.keys
    /\ FirstRecord.status \notin KnownStatuses

Failed == cycle.fetched /\ cycle.error # NoExc

VerdictCalls == {i \in DOMAIN cycle.calls : cycle.calls[i].by = "send_message"}

UnknownStatusText ==
    "Sboi v rabote programmy: 'Nedokumentirovannyi status domashnei raboty'"

CredentialMissing == \E token \in TOKEN_NAMES : env[token] = None

(***************************************************************************)
(* C1: in a cycle whose answer is valid and whose first record has a name  *)
(* and a known status, the bot is called exactly once, with the verdict    *)
(* message of that record, whether or not the send succeeds.               *)
(***************************************************************************)
C1_OneVerdictCall ==
    FirstIsKnown =>
        /\ Len(cycle.calls) = 1
        /\ cycle.calls[1].text =
               VerdictMessage(FirstRecord.homework_name,
                              HOMEWORK_VERDICTS[FirstRecord.status])

(***************************************************************************)
(* C2: once the credentials are accepted no exception leaves the loop:     *)
(* the program is never in a crashed state.                                *)
(***************************************************************************)
C2_NeverCrashes == pc # "CRASHED"

(***************************************************************************)
(* C3: a verdict send that fails is only logged: the cycle makes no        *)
(* further bot call.                                                       *)
(***************************************************************************)
C3_NoSecondAttempt ==
    (\E i \in VerdictCalls : ~cycle.calls[i].ok) => Len(cycle.calls) = 1

(***************************************************************************)
(* C4: of two consecutive failed cycles with the same error text only the  *)
(* first sends an error notification; with different texts each of the two *)
(* sends exactly one.                                                      *)
(***************************************************************************)
C4_PairwiseDedup ==
    [][(pc = "POLLING" /\ Failed /\ Failed') =>
          IF cycle.message = cycle'.message
          THEN ErrorSends(cycle.calls) = 1 /\ ErrorSends(cycle'.calls) = 0
          ELSE ErrorSends(cycle.calls) = 1 /\ ErrorSends(cycle'.calls) = 1]_vars

(***************************************************************************)
(* C4 as amended: of two consecutive failed cycles the second sends no     *)
(* error notification when the texts are the same and exactly one when     *)
(* they differ; a failed cycle, the first of the two included, sends one   *)
(* exactly when its text differs from the last error message it starts     *)
(* with.                                                                   *)
(***************************************************************************)
C4_DedupAgainstLast ==
    /\ (Failed /\ cycle.prev.failed) =>
           ErrorSends(cycle.calls) =
               (IF cycle.prev.message = cycle.message THEN 0 ELSE 1)
    /\ Failed =>
           ErrorSends(cycle.calls) =
               (IF cycle.before.last_message = cycle.message THEN 0 ELSE 1)

C4_Witness ==
    /\ Failed
    /\ cycle.prev.failed
    /\ cycle.prev.message = cycle.message
    /\ cycle.calls = <<>>

(***************************************************************************)
(* C5: a first record with an unknown status makes the cycle send exactly  *)
(* one notification, the error text, and no verdict, whatever the earlier  *)
(* cycles were.                                                            *)
(***************************************************************************)
C5_UnknownAlwaysNotified ==
    FirstIsUnknown =>
        /\ VerdictCalls = {}
        /\ Len(cycle.calls) = 1
        /\ cycle.calls[1].text = UnknownStatusText

(***************************************************************************)
(* C5 as amended: a first record with an unknown status makes formatting   *)
(* fail and no verdict is sent; the cycle sends exactly one notification,  *)
(* the error text, unless the last error message is already that text, and *)
(* then it sends none.                                                     *)
(***************************************************************************)
C5_UnknownNotifiedUnlessRepeated ==
    FirstIsUnknown =>
        /\ cycle.error.type = "KeyError"
        /\ VerdictCalls = {}
        /\ IF cycle.before.last_message = UnknownStatusText
           THEN cycle.calls = <<>>
           ELSE /\ Len(cycle.calls) = 1
                /\ cycle.calls[1].text = UnknownStatusText

C5_Witness ==
    /\ FirstIsUnknown
    /\ cycle.before.last_message = UnknownStatusText
    /\ cycle.calls = <<>>

(***************************************************************************)
(* C6: a cycle whose valid answer has no homeworks calls the bot not at    *)
(* all, leaves the last error message alone and moves the cursor to the    *)
(* current_date of the answer.                                             *)
(***************************************************************************)
C6_EmptyAnswer ==
    (PassedValidation /\ cycle.net.json.homeworks = <<>>) =>
        /\ cycle.calls = <<>>
        /\ last_message = cycle.before.last_message
        /\ timestamp = cycle.net.json.current_date

C6_Witness ==
    /\ PassedValidation
    /\ cycle.net.json.homeworks = <<>>
    /\ cycle.before.last_message # None
    /\ timestamp # cycle.before.timestamp

(***************************************************************************)
(* C7: with a credential missing the program stops at startup: it never    *)
(* polls, never fetches and never calls the bot.                           *)
(***************************************************************************)
C7_MissingCredentialIsFatal ==
    CredentialMissing =>
        /\ pc \in {"STARTING", "EXITED"}
        /\ ~cycle.fetched
        /\ cycle.calls = <<>>

C7_Witness ==
    /\ pc = "EXITED"
    /\ Cardinality({token \in TOKEN_NAMES : env[token] = None}) = 1

(***************************************************************************)
(* C8: when the network call cannot complete, the fetch fails with the     *)
(* transport error and the response is never read.                         *)
(***************************************************************************)
C8_TransportErrorPropagates ==
    (cycle.fetched /\ ~cycle.net.transport_ok) =>
        /\ cycle.error.type = "RequestException"
        /\ ~cycle.obs.referenced_response

(***************************************************************************)
(* C9: when formatting or the verdict send fails the cursor keeps the      *)
(* value it had before the cycle.                                          *)
(***************************************************************************)
C9_CursorKeptOnFailure ==
    (PassedValidation /\ Failed) => timestamp = cycle.before.timestamp

(***************************************************************************)
(* C9 as amended: the cursor moves to the current_date of the answer as    *)
(* soon as the answer has passed validation, before formatting and         *)
(* sending; a failure of either leaves it at that current_date.            *)
(***************************************************************************)
C9_CursorMovedAtValidation ==
    PassedValidation => timestamp = cycle.net.json.current_date

C9_Witness ==
    /\ FirstIsUnknown
    /\ Failed
    /\ timestamp = cycle.net.json.current_date
    /\ timestamp # cycle.before.timestamp

(***************************************************************************)
(* C10: a cycle whose HTTP status is not 200, with a different previous    *)
(* error text, sends exactly one error notification whose text names the   *)
(* failure: it says something after the prefix and differs from the text   *)
(* of every other kind of error.                                           *)
(***************************************************************************)
OtherErrors ==
    {UnboundLocalError("response"), UnboundLocalError("status"),
     JSONDecodeError, ResponseTypeError, StatusKeyError,
     NotSendMessageTelegram}

C10_StatusErrorIsNamed ==
    (/\ cycle.fetched
     /\ cycle.net.transport_ok
     /\ cycle.net.status_code # 200
     /\ cycle.before.last_message # cycle.message) =>
        /\ Len(cycle.calls) = 1
        /\ cycle.calls[1].by = "main"
        /\ cycle.calls[1].text # "Sboi v rabote programmy: "
        /\ \A e \in OtherErrors :
               cycle.calls[1].text # "Sboi v rabote programmy: " \o e.str

(***************************************************************************)
(* C11: an error notification is suppressed only when the cycle just       *)
(* before also failed with the same text; the same error after a           *)
(* successful cycle is notified again.                                     *)
(***************************************************************************)
C11_OnlyImmediateRepeats ==
    (Failed /\ ErrorSends(cycle.calls) = 0) =>
        (cycle.prev.failed /\ cycle.prev.message = cycle.message)

(***************************************************************************)
(* C12: the cursor is an integer in every state: an answer whose           *)
(* current_date is not an integer is rejected, never becomes the cursor    *)
(* and never leads to a verdict.                                           *)
(***************************************************************************)
C12_CursorIsInteger ==
    /\ timestamp.type \in {"int", "unset"}
    /\ (/\ Answered200
        /\ cycle.net.json.shape = "dict"
        /\ "current_date" \in cycle.net.json.keys
        /\ cycle.net.json.current_date.type # "int") =>
           /\ cycle.error.type = "TypeError"
           /\ VerdictCalls = {}
           /\ timestamp = cycle.before.timestamp

(***************************************************************************)
(* C13: between two consecutive fetches the program sleeps exactly once,   *)
(* for RETRY_PERIOD seconds, after a successful cycle and after a failed   *)
(* one alike.                                                              *)
(***************************************************************************)
C13_OneSleepBetweenFetches ==
    [][(cycle.fetched /\ cycle' # cycle /\ cycle'.slept = 0) =>
          (pc = "POLLING" /\ cycle.slept = 600)]_vars

C13_Witness ==
    /\ pc = "POLLING"
    /\ Failed
    /\ cycle.prev.failed
    /\ cycle.slept = 600

(***************************************************************************)
(* C14: a first record without homework_name or without status makes       *)
(* formatting fail: no verdict is sent and the failure goes through the    *)
(* except clause like any other one.                                       *)
(***************************************************************************)
FirstIsIncomplete ==
    /\ PassedValidation
    /\ cycle.net.json.homeworks # <<>>
    /\ ~({"homework_name", "status"} \subseteq FirstRecord.keys)

C14_IncompleteRecordFails ==
    FirstIsIncomplete =>
        /\ Failed
        /\ VerdictCalls = {}
        /\ \A i \in DOMAIN cycle.calls : cycle.calls[i].text = cycle.message
        /\ ErrorSends(cycle.calls) =
               (IF cycle.before.last_message = cycle.message THEN 0 ELSE 1)

C14_Witness ==
    /\ FirstIsIncomplete
    /\ FirstRecord.keys = {"status"}
    /\ FirstRecord.status = "approved"
    /\ Len(cycle.calls) = 1
    /\ cycle.calls[1].by = "main"

(***************************************************************************)
(* C15: the cursor is the startup time until an answer passes validation   *)
(* and from then on the current_date of the latest answer that did; a      *)
(* transport failure, a status other than 200 and a validation failure     *)
(* leave it as it was.                                                     *)
(***************************************************************************)
C15_CursorFollowsValidAnswers ==
    /\ (pc \in {"POLLING", "SLEEPING", "CRASHED"} /\ ~cycle.fetched) =>
           timestamp = [type |-> "int", val |-> 0]
    /\ cycle.fetched =>
           timestamp = (IF PassedValidation
                        THEN cycle.net.json.current_date
                        ELSE cycle.before.timestamp)

C15_Witness ==
    /\ Answered200
    /\ ~PassedValidation
    /\ "current_date" \in cycle.net.json.keys
    /\ cycle.net.json.current_date # timestamp
    /\ timestamp = cycle.before.timestamp
    /\ timestamp # [type |-> "int", val |-> 0]

(***************************************************************************)
(* C16: of a valid answer with several homeworks only the first is used:   *)
(* the bot calls, the cursor and the last error message of the cycle are   *)
(* those of a cycle given the same answer cut down to its first homework,  *)
(* whatever the other homeworks contain.                                   *)
(***************************************************************************)
FirstOnly(net) == [net EXCEPT !.json.homeworks = <<Head(@)>>]

C16_OnlyFirstRecordCounts ==
    (PassedValidation /\ Len(cycle.net.json.homeworks) > 1) =>
        \E tg1 \in BOOLEAN, tg2 \in BOOLEAN :
            LET r == main_cycle(cycle.before.timestamp,
                                cycle.before.last_message,
                                FirstOnly(cycle.net), tg1, tg2)
            IN  /\ cycle.calls = r.calls
                /\ timestamp = r.timestamp
                /\ last_message = r.last_message

C16_Witness ==
    /\ FirstIsKnown
    /\ Len(cycle.net.json.homeworks) > 1
    /\ cycle.net.json.homeworks[2].keys = {}
    /\ Len(cycle.calls) = 1
    /\ cycle.calls[1].ok
    /\ cycle.calls[1].by = "send_message"

(***************************************************************************)
(* C17: a cycle delivers at most one message to the chat: never a verdict  *)
(* and an error notification both, since the except clause runs only when  *)
(* the verdict send did not complete.                                      *)
(***************************************************************************)
Delivered == {i \in DOMAIN cycle.calls : cycle.calls[i].ok}

C17_AtMostOneDelivery ==
    /\ Cardinality(Delivered) <= 1
    /\ (\E i \in VerdictCalls : cycle.calls[i].ok) =>
           (cycle.error = NoExc /\ ErrorSends(cycle.calls) = 0)

C17_Witness ==
    /\ Len(cycle.calls) = 2
    /\ cycle.calls[1].by = "send_message"
    /\ ~cycle.calls[1].ok
    /\ cycle.calls[2].by = "main"
    /\ cycle.calls[2].ok

(***************************************************************************)
(* C18: the last error message is empty until an error notification is     *)
(* delivered and from then on the text of the latest one delivered; a      *)
(* successful cycle, a suppressed failure and an error send that fails     *)
(* leave it as it was.                                                     *)
(***************************************************************************)
DeliveredErrors == {i \in Delivered : cycle.calls[i].by = "main"}

C18_LastMessageIsLastDelivered ==
    /\ ~cycle.fetched => last_message = "None"
    /\ cycle.fetched =>
           IF DeliveredErrors # {}
           THEN \A i \in DeliveredErrors : last_message = cycle.calls[i].text
           ELSE last_message = cycle.before.last_message

C18_Witness ==
    /\ Failed
    /\ ErrorSends(cycle.calls) = 1
    /\ DeliveredErrors = {}
    /\ last_message = cycle.before.last_message
    /\ last_message # "None"

====
